---------------------------- MODULE Spec2Model ----------------------------
(* A model of the OCR validation harness of src/app.py: OCRValidator's      *)
(* compare_results (a pure function), validate_image (one image's sweep     *)
(* over every combination of distortions) and run_validation (the thread    *)
(* pool over the images of a directory, the flattening of the results, the  *)
(* result table and the statistics).                                        *)
(*                                                                          *)
(* Python strings are sequences of one-character strings, dicts are         *)
(* sequences of <<key, value>> pairs in insertion order, floats are exact   *)
(* fractions <<numerator, denominator>>, Optional[str] is <<>> (None) or    *)
(* <<text>>.                                                                *)
EXTENDS Integers, Sequences, FiniteSets, TLC

(***************************************************************************)
(* Bounds of the model                                                     *)
(***************************************************************************)
\* the length of the long field values (long enough for a ratio below 0.3)
LongLen == 36
\* the largest number of files in the image directory
MaxFiles == 3
\* the largest number of ValidationResults a run is set up to produce
MaxTests == 4
\* the largest max_workers
MaxWorkers == 2
\* the largest number of calls of one run whose outcome is not the nominal one
\* (a file that cannot be read, a failed call, a record other than the
\* form's, an empty analysis)
MaxFaults == 2

(***************************************************************************)
(* Strings                                                                 *)
(***************************************************************************)
\* the characters of the model, in code point order
Alphabet == <<"\"", "\\", "a", "b", "c", "d", "x", "y">>

Ord(c) == CHOOSE i \in 1..Len(Alphabet) : Alphabet[i] = c

RECURSIVE StrLess(_, _)
\* Python's str.__lt__: lexicographic over code points
StrLess(s, t) ==
    IF t = <<>> THEN FALSE
    ELSE IF s = <<>> THEN TRUE
    ELSE IF Head(s) = Head(t) THEN StrLess(Tail(s), Tail(t))
    ELSE Ord(Head(s)) < Ord(Head(t))

RECURSIVE Rep(_, _)
Rep(c, n) == IF n = 0 THEN <<>> ELSE <<c>> \o Rep(c, n - 1)

RECURSIVE Flatten(_)
\* the concatenation of a sequence of sequences
Flatten(ss) == IF ss = <<>> THEN <<>> ELSE Head(ss) \o Flatten(Tail(ss))

Max(a, b) == IF a >= b THEN a ELSE b


(***************************************************************************)
(* json.dumps(record, sort_keys=True)                                      *)
(***************************************************************************)
RECURSIVE InsertItem(_, _)
\* kv put into its place in a sequence of items sorted by key
InsertItem(kv, sorted) ==
    IF sorted = <<>> THEN <<kv>>
    ELSE IF StrLess(kv[1], Head(sorted)[1]) THEN <<kv>> \o sorted
    ELSE <<Head(sorted)>> \o InsertItem(kv, Tail(sorted))

RECURSIVE SortedItems(_)
\* the items of a dict in the order of their keys (sort_keys=True)
SortedItems(rec) ==
    IF rec = <<>> THEN <<>> ELSE InsertItem(Head(rec), SortedItems(Tail(rec)))

\* the JSON escape of one character
Escape(c) == IF c = "\"" \/ c = "\\" THEN <<"\\", c>> ELSE <<c>>

\* a Python string as a JSON string literal
Quote(s) == <<"\"">> \o Flatten([i \in 1..Len(s) |-> Escape(s[i])]) \o <<"\"">>

\* one "key": "value" member
Member(kv) == Quote(kv[1]) \o <<":", " ">> \o Quote(kv[2])

RECURSIVE JoinMembers(_)
JoinMembers(items) ==
    IF items = <<>> THEN <<>>
    ELSE IF Len(items) = 1 THEN Member(items[1])
    ELSE Member(Head(items)) \o <<",", " ">> \o JoinMembers(Tail(items))

\* json.dumps without sort_keys: the members in insertion order
json_dumps_Unsorted(rec) == <<"{">> \o JoinMembers(rec) \o <<"}">>

\* json.dumps(rec, sort_keys=True)
json_dumps(rec) == <<"{">> \o JoinMembers(SortedItems(rec)) \o <<"}">>

(***************************************************************************)
(* Levenshtein.ratio: 1 - indel_distance / (len1 + len2), 1.0 for two      *)
(* empty strings; the indel distance is len1 + len2 - 2 * LCS              *)
(***************************************************************************)
RECURSIVE LcsRow(_, _, _, _)
\* one row of the LCS table: acc holds the entries 0 .. Len(acc) - 1
LcsRow(prev, c, t, acc) ==
    IF Len(acc) = Len(t) + 1 THEN acc
    ELSE LET j == Len(acc)
             v == IF t[j] = c THEN prev[j] + 1 ELSE Max(prev[j + 1], acc[j])
         IN  LcsRow(prev, c, t, Append(acc, v))

RECURSIVE LcsRows(_, _, _)
\* the table row by row; the test on Len(row) has the row computed before the
\* next one is started
LcsRows(s, t, prev) ==
    IF s = <<>> THEN prev
    ELSE LET row == LcsRow(prev, Head(s), t, <<0>>)
         IN  IF Len(row) = Len(t) + 1 THEN LcsRows(Tail(s), t, row) ELSE <<>>

\* the length of a longest common subsequence
Lcs(s, t) == LcsRows(s, t, [j \in 1..(Len(t) + 1) |-> 0])[Len(t) + 1]

\* the similarity ratio as an exact fraction <<numerator, denominator>>
LevenshteinRatio(s, t) ==
    LET lensum == Len(s) + Len(t)
        dist   == lensum - 2 * Lcs(s, t)
    IN  IF lensum = 0 THEN <<1, 1>> ELSE <<lensum - dist, lensum>>

\* comparisons of fractions with positive denominators
FracLess(p, q) == p[1] * q[2] < q[1] * p[2]
FracEq(p, q) == p[1] * q[2] = q[1] * p[2]

One == <<1, 1>>
Zero == <<0, 1>>
\* the analysis threshold's 0.8 where the 0.3 belongs
HallucinationCutoff_Threshold == <<4, 5>>

\* the 0.3 of line 165
HallucinationCutoff == <<3, 10>>

(***************************************************************************)
(* ErrorCategory                                                           *)
(***************************************************************************)
CORRECT == "correct"
HALLUCINATION == "hallucination"
PARTIAL_INCORRECT == "partial_incorrect"
NO_EXTRACTION == "no_extraction"
ErrorCategory == {CORRECT, HALLUCINATION, PARTIAL_INCORRECT, NO_EXTRACTION}

(***************************************************************************)
(* OCRValidator.compare_results                                            *)
(***************************************************************************)
\* compare_results without the test for an empty extraction of line 152
compare_results_NoEmptyCheck(true_json, extracted_json) ==
    LET distance == LevenshteinRatio(json_dumps(true_json),
                                     json_dumps(extracted_json))
    IN  IF FracEq(distance, One) THEN <<distance, CORRECT>>
        ELSE IF FracLess(distance, HallucinationCutoff)
             THEN <<distance, HALLUCINATION>>
             ELSE <<distance, PARTIAL_INCORRECT>>

\* compare_results taking every ratio from 0.8 up for a match
compare_results_NearMatch(true_json, extracted_json) ==
    IF extracted_json = <<>> THEN <<Zero, NO_EXTRACTION>>
    ELSE LET distance == LevenshteinRatio(json_dumps(true_json),
                                          json_dumps(extracted_json))
         IN  IF ~FracLess(distance, <<4, 5>>) THEN <<distance, CORRECT>>
             ELSE IF FracLess(distance, HallucinationCutoff)
                  THEN <<distance, HALLUCINATION>>
                  ELSE <<distance, PARTIAL_INCORRECT>>

compare_results(true_json, extracted_json) ==
    IF extracted_json = <<>> THEN <<Zero, NO_EXTRACTION>>
    ELSE LET true_str      == json_dumps(true_json)
             extracted_str == json_dumps(extracted_json)
             distance      == LevenshteinRatio(true_str, extracted_str)
         IN  IF FracEq(distance, One) THEN <<distance, CORRECT>>
             ELSE IF FracLess(distance, HallucinationCutoff)
                  THEN <<distance, HALLUCINATION>>
                  ELSE <<distance, PARTIAL_INCORRECT>>

(***************************************************************************)
(* itertools.combinations and the loops of validate_image                  *)
(***************************************************************************)
RECURSIVE Prepend(_, _)
\* x put in front of every tuple of a sequence of tuples
Prepend(x, tuples) ==
    IF tuples = <<>> THEN <<>>
    ELSE <<(<<x>> \o Head(tuples))>> \o Prepend(x, Tail(tuples))

RECURSIVE combinations_TailFirst(_, _)
\* the r-length tuples, those without the first element of pool first
combinations_TailFirst(pool, r) ==
    IF r = 0 THEN << <<>> >>
    ELSE IF Len(pool) < r THEN <<>>
    ELSE combinations_TailFirst(Tail(pool), r)
         \o Prepend(Head(pool), combinations_TailFirst(Tail(pool), r - 1))

RECURSIVE combinations(_, _)
\* itertools.combinations(pool, r): the r-length tuples of elements of pool,
\* in the lexicographic order of their positions
combinations(pool, r) ==
    IF r = 0 THEN << <<>> >>
    ELSE IF Len(pool) < r THEN <<>>
    ELSE Prepend(Head(pool), combinations(Tail(pool), r - 1))
         \o combinations(Tail(pool), r)

RECURSIVE CombinationsFrom(_, _)
\* for r in range(r, len(list) + 1): for distortions in combinations(list, r)
CombinationsFrom(list, r) ==
    IF r > Len(list) THEN <<>>
    ELSE combinations(list, r) \o CombinationsFrom(list, r + 1)

\* the loops without the continue of lines 206-209
LoopCombinations_NoSkip(list) == CombinationsFrom(list, 0)

\* the tuples the body of the loops runs for: the empty one is skipped
LoopCombinations(list) ==
    SelectSeq(CombinationsFrom(list, 0), LAMBDA d : d # <<>>)

(***************************************************************************)
(* The inputs of a run                                                     *)
(***************************************************************************)
\* the records the extraction service answers with: the form's record, a
\* record at ratio 0.8 from it, and a long record unrelated to it
RecA == << <<(<<"a">>), (<<"b">>)>> >>
RecB == << <<(<<"c">>), (<<"d">>)>> >>
RecH == << <<(<<"c">>), Rep("y", LongLen)>> >>
NominalRecord == RecA
OtherRecords == {RecB, RecH}

\* the texts the analysis call answers with
NominalText == "analysis"
EmptyText == ""

\* the distortion names of main(), line 314
DistortionNames == <<"blur", "noise", "rotation", "compression">>

\* the configured vocabularies: the prefixes of main()'s list, and a list that
\* names one distortion twice
DistortionLists ==
    {SubSeq(DistortionNames, 1, n) : n \in 0..2} \cup {<<"blur", "blur">>}

\* the vocabularies of the sweep of one image
SweepLists == DistortionLists \cup {SubSeq(DistortionNames, 1, 3)}

\* vocabularies whose order is not the order of the names
OrderLists == {<<"noise", "blur">>, <<"rotation", "blur", "noise">>}

\* the thresholds: the default 0.8 (line 69), and 1.0
Thresholds == {<<4, 5>>, <<1, 1>>}

\* thresholds that are no ratio: levenshtein_threshold is any float (line 69)
InvalidThresholds == {<<3, 2>>, <<-1, 2>>}

\* the listing of the image directory
Listing == <<"b.png", "notes.txt", "a.jpg", "c.jpg">>
Directories == {SubSeq(Listing, 1, n) : n \in 0..MaxFiles}

IsJpg(f) == f \in {"a.jpg", "c.jpg"}
IsPng(f) == f \in {"b.png"}

\* the records a run compares: what get_claude_extraction can return
RunRecords == {<<>>, NominalRecord} \cup OtherRecords

\* compare_results and the loops' tuples over the inputs of a run, computed
\* once: the pairs <<arguments, value>>
CompareSet ==
    {<<p, compare_results(p[1], p[2])>> : p \in RunRecords \X RunRecords}
CombinationSet ==
    {<<list, LoopCombinations(list)>> : list \in SweepLists \cup OrderLists}
CompareTable == [p \in RunRecords \X RunRecords |->
                    (CHOOSE q \in CompareSet : q[1] = p)[2]]
CombinationTable == [list \in SweepLists \cup OrderLists |->
                        (CHOOSE q \in CombinationSet : q[1] = list)[2]]

\* list(dir.glob("*.jpg")) + list(dir.glob("*.png")), lines 262-264
Glob(dir) == SelectSeq(dir, IsJpg) \o SelectSeq(dir, IsPng)

(***************************************************************************)
(* The state                                                               *)
(***************************************************************************)
VARIABLES
    base_image_dir,          \* the files of self.base_image_dir
    dir_exists,              \* whether self.base_image_dir is a directory at all
    distortion_list,         \* self.distortion_list
    levenshtein_threshold,   \* self.levenshtein_threshold
    perform_claude_analysis, \* self.perform_claude_analysis
    max_workers,             \* run_validation's max_workers
    results,                 \* self.results
    main_pc,                 \* where run_validation is
    image_paths,             \* run_validation's image_paths
    task,                    \* per image: the future of validate_image and its locals
    next_future,             \* the future executor.map's iterator waits for
    all_results,             \* run_validation's all_results, as far as collected
    df,                      \* the rows of the DataFrame
    stats,                   \* the statistics
    faults,                  \* the number of outcomes that were not the nominal one
    score_args,              \* the arguments of a call of compare_results
    score_result             \* what the call returned

vars == <<base_image_dir, dir_exists, distortion_list, levenshtein_threshold,
          perform_claude_analysis, max_workers, results, main_pc, image_paths,
          task, next_future, all_results, df, stats, faults, score_args,
          score_result>>

config == <<base_image_dir, dir_exists, distortion_list, levenshtein_threshold,
            perform_claude_analysis, max_workers>>
scoring == <<score_args, score_result>>
after_pool == <<results, df, stats>>

None == <<>>
Some(x) == <<x>>

\* a future not yet picked up by a worker
NewTask ==
    [pc |-> "pending", exc |-> "", true_json |-> <<>>, k |-> 1,
     results |-> <<>>, calls |-> <<>>, pending |-> <<>>]

Tasks == 1..Len(image_paths)

\* the paths of lines 262-264: globbing a path that is no directory yields
\* nothing and raises nothing
ListedPaths == IF dir_exists THEN Glob(base_image_dir) ELSE <<>>

\* the tuples of distortions validate_image runs its loop body for
Combinations == CombinationTable[distortion_list]

Running(i) == task[i].pc \in {"started", "loop", "analysis"}

(***************************************************************************)
(* The calls of validate_image                                             *)
(***************************************************************************)
\* what the service does with one extraction request: it answers with the
\* text of a record, or the call fails (transport, malformed response, text
\* that is not JSON)
Answer(rec) == [ok |-> TRUE, rec |-> rec]
Failure == [ok |-> FALSE, rec |-> <<>>]
NominalAnswers == {Answer(NominalRecord)}
OtherAnswers == {Answer(r) : r \in OtherRecords} \cup {Failure}

\* get_claude_extraction answering a failure with a record that describes it
get_claude_extraction_ErrorRecord(response) ==
    IF response.ok THEN response.rec ELSE RecB

\* get_claude_extraction: the parsed record, and {} when anything was raised
get_claude_extraction(response) ==
    IF response.ok THEN response.rec ELSE <<>>

\* the condition of lines 224-227
NeedsAnalysis(distance) ==
    perform_claude_analysis /\ FracLess(distance, levenshtein_threshold)

\* a ValidationResult with the two records in each other's place
ValidationResult_Swapped(image_name, distortions, true_json, extracted_json, distance, error_category, claude_analysis) ==
    [image_name           |-> image_name,
     distortions          |-> distortions,
     true_json            |-> extracted_json,
     extracted_json       |-> true_json,
     levenshtein_distance |-> distance,
     error_category       |-> error_category,
     claude_analysis      |-> claude_analysis]

\* the ValidationResult of lines 233-241
ValidationResult(image_name, distortions, true_json, extracted_json, distance, error_category, claude_analysis) ==
    [image_name           |-> image_name,
     distortions          |-> distortions,
     true_json            |-> true_json,
     extracted_json       |-> extracted_json,
     levenshtein_distance |-> distance,
     error_category       |-> error_category,
     claude_analysis      |-> claude_analysis]

\* one entry of the log of the calls a task made
Call(name, failed, returned) ==
    [call |-> name, failed |-> failed, returned |-> returned]

Fault(isFault) == IF isFault THEN 1 ELSE 0
MayFault == faults < MaxFaults

(***************************************************************************)
(* Init: the validator after construction, run_validation not yet called   *)
(***************************************************************************)
RunIdle ==
    /\ results = <<>>
    /\ main_pc = "start"
    /\ image_paths = <<>>
    /\ task = <<>>
    /\ next_future = 1
    /\ all_results = <<>>
    /\ df = <<>>
    /\ stats = None
    /\ faults = 0

Init ==
    /\ base_image_dir \in Directories
    /\ dir_exists = TRUE
    /\ distortion_list \in DistortionLists
    /\ levenshtein_threshold \in Thresholds
    /\ perform_claude_analysis \in BOOLEAN
    /\ max_workers \in 1..MaxWorkers
    /\ Len(Glob(base_image_dir)) * Len(Combinations) <= MaxTests
    /\ RunIdle
    /\ score_args = <<>>
    /\ score_result = <<>>

(***************************************************************************)
(* validate_image, run by a worker of the pool for image_paths[i]          *)
(***************************************************************************)
\* a worker takes the oldest future of the queue
Start(i) ==
    /\ main_pc \in {"collect", "unwinding"}
    /\ task[i].pc = "pending"
    /\ \A j \in 1..(i - 1) : task[j].pc # "pending"
    /\ Cardinality({j \in Tasks : Running(j)}) < max_workers
    /\ task' = [task EXCEPT ![i].pc = "started"]
    /\ UNCHANGED <<config, scoring, after_pool, main_pc, image_paths,
                   next_future, all_results, faults>>

\* line 198: encode_image raises (the file cannot be read)
EncodeFails(i) ==
    /\ task[i].pc = "started"
    /\ MayFault
    /\ task' = [task EXCEPT ![i].pc = "raised", ![i].exc = "encode_image"]
    /\ faults' = faults + 1
    /\ UNCHANGED <<config, scoring, after_pool, main_pc, image_paths,
                   next_future, all_results>>

\* lines 198-201: the base image is encoded and the ground truth extracted
ExtractTruth(i) ==
    /\ task[i].pc = "started"
    /\ \E response \in NominalAnswers \cup OtherAnswers :
          /\ response \in OtherAnswers => MayFault
          /\ faults' = faults + Fault(response \in OtherAnswers)
          /\ task' = [task EXCEPT
                ![i].pc = "loop",
                ![i].true_json = get_claude_extraction(response),
                ![i].calls = Append(@, Call("truth", ~response.ok,
                                            get_claude_extraction(response)))]
    /\ UNCHANGED <<config, scoring, after_pool, main_pc, image_paths,
                   next_future, all_results>>

\* line 212: apply_distortions raises
ApplyFails(i) ==
    /\ task[i].pc = "loop"
    /\ task[i].k <= Len(Combinations)
    /\ MayFault
    /\ task' = [task EXCEPT ![i].pc = "raised", ![i].exc = "apply_distortions"]
    /\ faults' = faults + 1
    /\ UNCHANGED <<config, scoring, after_pool, main_pc, image_paths,
                   next_future, all_results>>

\* lines 212-242 for one tuple of distortions, up to the analysis call:
\* without analysis the result is appended
Extract(i) ==
    /\ task[i].pc = "loop"
    /\ task[i].k <= Len(Combinations)
    /\ \E response \in NominalAnswers \cup OtherAnswers :
          LET distortions    == Combinations[task[i].k]
              extracted_json == get_claude_extraction(response)
              compared       == CompareTable[<<task[i].true_json, extracted_json>>]
              distance       == compared[1]
              error_category == compared[2]
              result == ValidationResult(image_paths[i], distortions,
                            task[i].true_json, extracted_json, distance,
                            error_category, None)
          IN  /\ response \in OtherAnswers => MayFault
              /\ faults' = faults + Fault(response \in OtherAnswers)
              /\ IF NeedsAnalysis(distance)
                 THEN task' = [task EXCEPT
                        ![i].pc = "analysis",
                        ![i].pending = <<result>>,
                        ![i].calls = Append(@, Call("distorted", ~response.ok,
                                                extracted_json))]
                 ELSE task' = [task EXCEPT
                        ![i].k = @ + 1,
                        ![i].results = Append(@, result),
                        ![i].calls = Append(@, Call("distorted", ~response.ok,
                                                extracted_json))]
    /\ UNCHANGED <<config, scoring, after_pool, main_pc, image_paths,
                   next_future, all_results>>

\* lines 228-242: get_claude_analysis returns a text; the result is appended
Analyse(i) ==
    /\ task[i].pc = "analysis"
    /\ \E text \in {NominalText, EmptyText} :
          /\ text = EmptyText => MayFault
          /\ faults' = faults + Fault(text = EmptyText)
          /\ task' = [task EXCEPT
                ![i].pc = "loop",
                ![i].k = @ + 1,
                ![i].pending = <<>>,
                ![i].results =
                    Append(@, [task[i].pending[1] EXCEPT
                                  !.claude_analysis = Some(text)]),
                ![i].calls = Append(@, Call("analysis", FALSE, text))]
    /\ UNCHANGED <<config, scoring, after_pool, main_pc, image_paths,
                   next_future, all_results>>

\* lines 184-189: the analysis call raises; nothing in validate_image catches it
AnalysisFails(i) ==
    /\ task[i].pc = "analysis"
    /\ MayFault
    /\ faults' = faults + 1
    /\ task' = [task EXCEPT
          ![i].pc = "raised",
          ![i].exc = "get_claude_analysis",
          ![i].calls = Append(@, Call("analysis", TRUE, None))]
    /\ UNCHANGED <<config, scoring, after_pool, main_pc, image_paths,
                   next_future, all_results>>

\* line 250: the loops are over
Return(i) ==
    /\ task[i].pc = "loop"
    /\ task[i].k > Len(Combinations)
    /\ task' = [task EXCEPT ![i].pc = "returned"]
    /\ UNCHANGED <<config, scoring, after_pool, main_pc, image_paths,
                   next_future, all_results, faults>>

(***************************************************************************)
(* The result table and the statistics                                     *)
(***************************************************************************)
RECURSIVE Join(_, _)
\* sep.join(names)
Join(sep, names) ==
    IF names = <<>> THEN ""
    ELSE IF Len(names) = 1 THEN names[1]
    ELSE names[1] \o sep \o Join(sep, Tail(names))

\* bool(x) of an Optional[str]: None and "" are false
Truthy(opt) == opt # None /\ opt[1] # ""

\* one row of the DataFrame, lines 276-282
Row(r) ==
    [image_name           |-> r.image_name,
     distortions          |-> Join(",", r.distortions),
     levenshtein_distance |-> r.levenshtein_distance,
     error_category       |-> r.error_category,
     has_claude_analysis  |-> Truthy(r.claude_analysis)]

RECURSIVE Gcd(_, _)
Gcd(a, b) == IF b = 0 THEN a ELSE Gcd(b, a % b)

\* a fraction in lowest terms
Reduce(p) == LET g == Gcd(p[1], p[2]) IN <<p[1] \div g, p[2] \div g>>

FracAdd(p, q) == Reduce(<<p[1] * q[2] + q[1] * p[2], p[2] * q[2]>>)

RECURSIVE FracSum(_)
FracSum(ps) == IF ps = <<>> THEN Zero ELSE FracAdd(Head(ps), FracSum(Tail(ps)))

\* df.levenshtein_distance.mean() of a table with rows
Mean(rows) ==
    LET total == FracSum([n \in 1..Len(rows) |-> rows[n].levenshtein_distance])
    IN  Reduce(<<total[1], total[2] * Len(rows)>>)

\* len(df[df.error_category == category])
CountCategory(rows, category) ==
    Len(SelectSeq(rows, LAMBDA row : row.error_category = category))

\* the stats with the hallucinations counted as partially incorrect too
Statistics_PartialOrWorse(rows) ==
    [total_tests         |-> Len(rows),
     correct             |-> CountCategory(rows, CORRECT),
     hallucinations      |-> CountCategory(rows, HALLUCINATION),
     partial_incorrect   |-> CountCategory(rows, PARTIAL_INCORRECT)
                                + CountCategory(rows, HALLUCINATION),
     no_extraction       |-> CountCategory(rows, NO_EXTRACTION),
     average_levenshtein |-> Mean(rows)]

\* the stats of lines 288-301
Statistics(rows) ==
    [total_tests         |-> Len(rows),
     correct             |-> CountCategory(rows, CORRECT),
     hallucinations      |-> CountCategory(rows, HALLUCINATION),
     partial_incorrect   |-> CountCategory(rows, PARTIAL_INCORRECT),
     no_extraction       |-> CountCategory(rows, NO_EXTRACTION),
     average_levenshtein |-> Mean(rows)]

(***************************************************************************)
(* run_validation, the main thread                                         *)
(***************************************************************************)
\* lines 262-268: the images are listed and one future per image is queued
Submit ==
    /\ main_pc = "start"
    /\ image_paths' = ListedPaths
    /\ task' = [i \in 1..Len(ListedPaths) |-> NewTask]
    /\ main_pc' = "collect"
    /\ UNCHANGED <<config, scoring, after_pool, next_future, all_results, faults>>

\* list() putting an empty list in the place of the future's result
Collect_Dropping ==
    /\ main_pc = "collect"
    /\ next_future <= Len(image_paths)
    /\ task[next_future].pc = "returned"
    /\ all_results' = Append(all_results, <<>>)
    /\ next_future' = next_future + 1
    /\ UNCHANGED <<config, scoring, after_pool, main_pc, image_paths, task, faults>>

\* line 268: list() takes the next future's result, in the order of the images
Collect ==
    /\ main_pc = "collect"
    /\ next_future <= Len(image_paths)
    /\ task[next_future].pc = "returned"
    /\ all_results' = Append(all_results, task[next_future].results)
    /\ next_future' = next_future + 1
    /\ UNCHANGED <<config, scoring, after_pool, main_pc, image_paths, task, faults>>

\* line 268: the next future raised: the exception leaves list(), the
\* iterator cancels the futures no worker has taken, and the with block waits
\* for the workers
CollectRaises ==
    /\ main_pc = "collect"
    /\ next_future <= Len(image_paths)
    /\ task[next_future].pc = "raised"
    /\ task' = [i \in Tasks |->
                  IF task[i].pc = "pending"
                  THEN [task[i] EXCEPT !.pc = "cancelled"] ELSE task[i]]
    /\ main_pc' = "unwinding"
    /\ UNCHANGED <<config, scoring, after_pool, image_paths, next_future,
                   all_results, faults>>

\* line 267: the pool has shut down and the exception leaves run_validation
Unwind ==
    /\ main_pc = "unwinding"
    /\ \A i \in Tasks : ~Running(i)
    /\ main_pc' = "raised"
    /\ UNCHANGED <<config, scoring, after_pool, image_paths, task, next_future,
                   all_results, faults>>

\* lines 270-306: the results are flattened, the table and the statistics made;
\* a table without rows has no column error_category, and line 290 raises
Finish ==
    /\ main_pc = "collect"
    /\ next_future > Len(image_paths)
    /\ results' = Flatten(all_results)
    /\ df' = [n \in 1..Len(results') |-> Row(results'[n])]
    /\ IF Len(df') = 0
       THEN /\ stats' = None
            /\ main_pc' = "raised"
       ELSE /\ stats' = Some(Statistics(df'))
            /\ main_pc' = "done"
    /\ UNCHANGED <<config, scoring, image_paths, task, next_future, all_results,
                   faults>>

Next ==
    \/ Submit
    \/ \E i \in Tasks : Start(i)
    \/ \E i \in Tasks : EncodeFails(i)
    \/ \E i \in Tasks : ExtractTruth(i)
    \/ \E i \in Tasks : ApplyFails(i)
    \/ \E i \in Tasks : Extract(i)
    \/ \E i \in Tasks : Analyse(i)
    \/ \E i \in Tasks : AnalysisFails(i)
    \/ \E i \in Tasks : Return(i)
    \/ Collect
    \/ CollectRaises
    \/ Unwind
    \/ Finish

Spec == Init /\ [][Next]_vars

\* the sweep of one image by one worker, over vocabularies of up to three names
SweepInit ==
    /\ base_image_dir = <<"b.png">>
    /\ dir_exists = TRUE
    /\ distortion_list \in SweepLists
    /\ levenshtein_threshold \in Thresholds
    /\ perform_claude_analysis \in BOOLEAN
    /\ max_workers = 1
    /\ RunIdle
    /\ score_args = <<>>
    /\ score_result = <<>>

SpecSweep == SweepInit /\ [][Next]_vars

\* the runs whose order of results is looked at: two images with two names,
\* one image with three names
OrderRuns ==
    {<<SubSeq(Listing, 1, 3), (<<"noise", "blur">>)>>,
     <<SubSeq(Listing, 1, 1), (<<"rotation", "blur", "noise">>)>>}

OrderInit ==
    /\ \E run \in OrderRuns :
          base_image_dir = run[1] /\ distortion_list = run[2]
    /\ dir_exists = TRUE
    /\ levenshtein_threshold = <<4, 5>>
    /\ perform_claude_analysis \in BOOLEAN
    /\ max_workers \in 1..MaxWorkers
    /\ RunIdle
    /\ score_args = <<>>
    /\ score_result = <<>>

SpecOrder == OrderInit /\ [][Next]_vars

\* the threshold is a ratio
ValidThreshold ==
    ~FracLess(levenshtein_threshold, Zero) /\ ~FracLess(One, levenshtein_threshold)

\* what __init__ was given is no configuration of a run: no distortion names,
\* a threshold outside [0, 1], or a path that is no directory
ConfigFailure == distortion_list = <<>> \/ ~ValidThreshold \/ ~dir_exists

\* the validator constructed from a configuration that has a failure:
\* __init__ stores what it is given (lines 82-87)
ConfigInit ==
    /\ base_image_dir \in Directories
    /\ dir_exists \in BOOLEAN
    /\ ~dir_exists => base_image_dir = <<>>
    /\ distortion_list \in DistortionLists
    /\ levenshtein_threshold \in Thresholds \cup InvalidThresholds
    /\ perform_claude_analysis \in BOOLEAN
    /\ max_workers \in 1..MaxWorkers
    /\ Len(Glob(base_image_dir)) * Len(Combinations) <= MaxTests
    /\ ConfigFailure
    /\ RunIdle
    /\ score_args = <<>>
    /\ score_result = <<>>

SpecConfig == ConfigInit /\ [][Next]_vars

(***************************************************************************)
(* compare_results on its own: every pair of records of a bounded set      *)
(***************************************************************************)
ScoreKeys == {<<"a">>, <<"b">>}
ShortValues == {<<"c">>, <<"d", "\"">>}
LongValues == {Rep("x", LongLen), Rep("y", LongLen)}

\* the dicts with at most one field, and those with two short fields in either
\* insertion order
ScoreRecords ==
    {<<>>}
    \cup {<<kv>> : kv \in ScoreKeys \X (ShortValues \cup LongValues)}
    \cup {<<kv1, kv2>> : kv1 \in {<<"a">>} \X ShortValues,
                         kv2 \in {<<"b">>} \X ShortValues}
    \cup {<<kv2, kv1>> : kv1 \in {<<"a">>} \X ShortValues,
                         kv2 \in {<<"b">>} \X ShortValues}

ScoreInit ==
    /\ base_image_dir = <<>>
    /\ dir_exists = TRUE
    /\ distortion_list = <<>>
    /\ levenshtein_threshold = <<4, 5>>
    /\ perform_claude_analysis = TRUE
    /\ max_workers = 1
    /\ RunIdle
    /\ score_args \in ScoreRecords \X ScoreRecords
    /\ score_result = <<>>

\* a call of compare_results(true_json, extracted_json)
Compare ==
    /\ score_result = <<>>
    /\ score_result' = compare_results(score_args[1], score_args[2])
    /\ UNCHANGED <<config, after_pool, main_pc, image_paths, task, next_future,
                   all_results, faults, score_args>>

ScoreNext == Compare

SpecScore == ScoreInit /\ [][ScoreNext]_vars

(***************************************************************************)
(* Vocabulary of the properties                                            *)
(***************************************************************************)
Range(seq) == {seq[n] : n \in 1..Len(seq)}

Distinct(seq) == \A m, n \in 1..Len(seq) : m # n => seq[m] # seq[n]

RECURSIVE Pow2(_)
Pow2(n) == IF n = 0 THEN 1 ELSE 2 * Pow2(n - 1)

\* the calls of get_claude_extraction a task made on distorted images, in order
DistortedCalls(i) == SelectSeq(task[i].calls, LAMBDA c : c.call = "distorted")

\* the calls of get_claude_extraction a task made
ExtractionCalls(i) ==
    SelectSeq(task[i].calls, LAMBDA c : c.call \in {"truth", "distorted"})

\* the ValidationResults a task has built so far
Built(i) == Range(task[i].results) \cup Range(task[i].pending)

\* the characters of the field names and values of a record
Chars(rec) ==
    UNION {Range(rec[n][1]) \cup Range(rec[n][2]) : n \in 1..Len(rec)}

\* two dicts with the same items, whatever the insertion order
SameDict(r1, r2) == Len(r1) = Len(r2) /\ Range(r1) = Range(r2)

Scored == score_result # <<>>

(***************************************************************************)
(* C1: when validate_image returns for a vocabulary of D distinct names,   *)
(* it returns 2^D - 1 results, one for each non-empty subset of the        *)
(* vocabulary: none repeated, none omitted, none for the empty subset.     *)
(***************************************************************************)
C1_OneResultPerNonEmptySubset ==
    \A i \in Tasks :
        (task[i].pc = "returned" /\ Distinct(distortion_list)) =>
            LET rs == task[i].results
            IN  /\ Len(rs) = Pow2(Len(distortion_list)) - 1
                /\ {Range(rs[n].distortions) : n \in 1..Len(rs)}
                      = (SUBSET Range(distortion_list)) \ {{}}
                /\ \A m, n \in 1..Len(rs) :
                      m # n => Range(rs[m].distortions) # Range(rs[n].distortions)
                /\ \A n \in 1..Len(rs) : rs[n].distortions # <<>>

C1_Witness ==
    \E i \in Tasks :
        /\ task[i].pc = "returned"
        /\ Distinct(distortion_list)
        /\ Len(distortion_list) = 3
        /\ Len(task[i].results) = 7

(***************************************************************************)
(* C2: the ground truth is extracted once per image, before any extraction *)
(* on a distorted image; the record that call returned is the true_json of *)
(* every result of the image; a returned validate_image has made one       *)
(* extraction call for the ground truth and one per result.                *)
(***************************************************************************)
C2_GroundTruthOnceAndShared ==
    \A i \in Tasks :
        LET calls == task[i].calls
        IN  /\ calls # <<>> => calls[1].call = "truth"
            /\ \A n \in 2..Len(calls) : calls[n].call # "truth"
            /\ \A r \in Built(i) : r.true_json = calls[1].returned
            /\ Len(DistortedCalls(i)) = Len(task[i].results) + Len(task[i].pending)
            /\ task[i].pc = "returned" =>
                  /\ Len(ExtractionCalls(i)) = 1 + Len(task[i].results)
                  /\ Len(task[i].results) = Len(Combinations)

C2_Witness ==
    \E i \in Tasks :
        /\ task[i].pc = "returned"
        /\ Len(task[i].results) = 3
        /\ task[i].true_json # <<>>
        /\ \E r \in Range(task[i].results) :
              r.extracted_json # <<>> /\ r.extracted_json # r.true_json

(***************************************************************************)
(* C3: a failed extraction call does not raise: it returns the empty       *)
(* record and validate_image goes on; the ValidationResult built from a    *)
(* failed call has category NO_EXTRACTION and score 0.0.                   *)
(***************************************************************************)
\* the state part of C3: what a failed call returned, and the result built
\* from it
C3_FailedCallReturnsEmpty ==
    \A i \in Tasks :
        /\ \A n \in 1..Len(task[i].calls) :
              LET c == task[i].calls[n]
              IN  (c.call \in {"truth", "distorted"} /\ c.failed) => c.returned = <<>>
        /\ \A n \in 1..Len(task[i].results) :
              DistortedCalls(i)[n].failed =>
                  /\ task[i].results[n].extracted_json = <<>>
                  /\ task[i].results[n].error_category = NO_EXTRACTION
                  /\ task[i].results[n].levenshtein_distance = Zero

\* the step part of C3: the step of a failed extraction call leaves
\* validate_image running
C3_FailedCallGoesOn ==
    \A i \in Tasks :
        (/\ i \in DOMAIN task'
         /\ Len(task'[i].calls) = Len(task[i].calls) + 1
         /\ task'[i].calls[Len(task'[i].calls)].call \in {"truth", "distorted"}
         /\ task'[i].calls[Len(task'[i].calls)].failed)
        => task'[i].pc \in {"loop", "analysis"}

\* C3: a failed extraction call returns the empty record, its result is
\* NO_EXTRACTION with score 0.0, and the step that makes the call never raises
C3_ExtractionFailsSoft ==
    []C3_FailedCallReturnsEmpty /\ [][C3_FailedCallGoesOn]_vars

C3_Witness ==
    \E i \in Tasks :
        /\ task[i].pc = "returned"
        /\ task[i].true_json # <<>>
        /\ \E n \in 1..Len(task[i].results) :
              /\ DistortedCalls(i)[n].failed
              /\ task[i].results[n].error_category = NO_EXTRACTION

\* the task made an analysis call that raised
AnalysisFailed(i) ==
    \E n \in 1..Len(task[i].calls) :
        task[i].calls[n].call = "analysis" /\ task[i].calls[n].failed

(***************************************************************************)
(* C4: when the analysis call fails for one tuple of distortions, the      *)
(* result of that tuple is still emitted, without analysis, and neither    *)
(* validate_image nor run_validation raises.                               *)
(***************************************************************************)
C4_AnalysisFailureIsolated ==
    \A i \in Tasks :
        AnalysisFailed(i) =>
            /\ task[i].pc # "raised"
            /\ main_pc \notin {"unwinding", "raised"}
            /\ Len(task[i].results) = Len(DistortedCalls(i))
            /\ \E r \in Range(task[i].results) : r.claude_analysis = None

\* validate_image raised because of the image: its file, or its distortion
FileFailed(i) ==
    task[i].pc = "raised" /\ task[i].exc \in {"encode_image", "apply_distortions"}

\* validate_image returned results
Healthy(i) == task[i].pc = "returned" /\ task[i].results # <<>>

(***************************************************************************)
(* C5: when validate_image fails for one image (its file cannot be read,   *)
(* or apply_distortions fails) and another image is healthy, run_validation*)
(* does not raise and returns the healthy image's results.                 *)
(***************************************************************************)
C5_ImageFailureIsolated ==
    ((\E i \in Tasks : FileFailed(i))
        /\ (\E j \in Tasks : Healthy(j))
        /\ (\A i \in Tasks : ~AnalysisFailed(i)))
    => /\ main_pc # "raised"
       /\ main_pc = "done" =>
             \A j \in Tasks : Healthy(j) => Range(task[j].results) \subseteq Range(results)

\* the analysis is enabled and the result's ratio is below the threshold
BelowThreshold(r) ==
    perform_claude_analysis
        /\ FracLess(r.levenshtein_distance, levenshtein_threshold)

\* the half of C6 about the ValidationResult: claude_analysis is not None
\* exactly below the threshold
C6_AnalysisAttachedIffBelow ==
    \A i \in Tasks : \A r \in Range(task[i].results) :
        (r.claude_analysis # None) <=> BelowThreshold(r)

(***************************************************************************)
(* C6: a ValidationResult has an analysis, and its row of the table says   *)
(* has_claude_analysis, if and only if perform_claude_analysis is set and  *)
(* the ratio is strictly below levenshtein_threshold.                      *)
(***************************************************************************)
C6_AnalysisIffBelowThreshold ==
    /\ C6_AnalysisAttachedIffBelow
    /\ \A n \in 1..Len(df) :
          df[n].has_claude_analysis <=> BelowThreshold(results[n])

(***************************************************************************)
(* C7: a ValidationResult has category NO_EXTRACTION if and only if its    *)
(* extracted record is empty, and its score is then 0.0 whatever the       *)
(* ground truth is.                                                        *)
(***************************************************************************)
C7_NoExtractionIffEmpty ==
    \A i \in Tasks : \A r \in Built(i) :
        /\ (r.error_category = NO_EXTRACTION) <=> (r.extracted_json = <<>>)
        /\ r.extracted_json = <<>> => r.levenshtein_distance = Zero

C7_Witness ==
    \E i \in Tasks :
        /\ \E r \in Range(task[i].results) :
              r.extracted_json = <<>> /\ r.true_json # <<>>
                 /\ r.error_category = NO_EXTRACTION
        /\ \E r \in Range(task[i].results) :
              r.extracted_json # <<>> /\ r.error_category # NO_EXTRACTION

(***************************************************************************)
(* C8: compare_results returns 1.0 if and only if it returns CORRECT, and  *)
(* then the extracted record is not empty and the key-sorted strings of    *)
(* the two records are the same; any other non-empty extracted record is   *)
(* HALLUCINATION below 0.3 and PARTIAL_INCORRECT otherwise.                *)
(***************************************************************************)
C8_CorrectIffRatioOne ==
    Scored =>
        LET ratio     == score_result[1]
            category  == score_result[2]
            true      == score_args[1]
            extracted == score_args[2]
        IN  /\ FracEq(ratio, <<1, 1>>) <=> category = CORRECT
            /\ category = CORRECT =>
                  extracted # <<>> /\ json_dumps(true) = json_dumps(extracted)
            /\ (extracted # <<>> /\ category # CORRECT) =>
                  category = IF FracLess(ratio, <<3, 10>>)
                             THEN HALLUCINATION ELSE PARTIAL_INCORRECT

C8_Witness ==
    /\ Scored
    /\ score_result[2] = CORRECT
    /\ score_args[1] # score_args[2]

(***************************************************************************)
(* C9 as amended: for every non-empty record R and every record with R's   *)
(* items in another insertion order, compare_results returns 1.0 and       *)
(* CORRECT; for the empty record, compare_results({}, {}) returns 0.0 and  *)
(* NO_EXTRACTION.                                                          *)
(***************************************************************************)
C9_ReflexiveUnlessEmpty ==
    (Scored /\ SameDict(score_args[1], score_args[2])) =>
        IF score_args[1] = <<>>
        THEN score_result = <<(<<0, 1>>), NO_EXTRACTION>>
        ELSE FracEq(score_result[1], <<1, 1>>) /\ score_result[2] = CORRECT

C9_Witness ==
    /\ Scored
    /\ SameDict(score_args[1], score_args[2])
    /\ score_args[1] # score_args[2]
    /\ score_result[2] = CORRECT

\* C9 as stated: for every record R, the empty one included,
\* compare_results(R, R) returns 1.0 and CORRECT
C9_Reflexive ==
    (Scored /\ SameDict(score_args[1], score_args[2])) =>
        FracEq(score_result[1], <<1, 1>>) /\ score_result[2] = CORRECT

\* the two records are not empty and share no character
NoSharedCharacter ==
    /\ score_args[1] # <<>>
    /\ score_args[2] # <<>>
    /\ Chars(score_args[1]) \cap Chars(score_args[2]) = {}

(***************************************************************************)
(* C10 as amended: for non-empty records whose field names and values      *)
(* share no character, compare_results returns the ratio of the key-sorted *)
(* JSON strings, which is above 0 (the strings share their punctuation) and*)
(* below 1, and the category is HALLUCINATION if that ratio is below 0.3   *)
(* and PARTIAL_INCORRECT otherwise.                                        *)
(***************************************************************************)
C10_DisjointByRatioOfJson ==
    (Scored /\ NoSharedCharacter) =>
        LET ratio == score_result[1]
            a     == json_dumps(score_args[1])
            b     == json_dumps(score_args[2])
        IN  /\ ratio[2] = Len(a) + Len(b)
            /\ ratio[1] = 2 * Lcs(a, b)
            /\ FracLess(<<0, 1>>, ratio) /\ FracLess(ratio, <<1, 1>>)
            /\ score_result[2] = IF FracLess(ratio, <<3, 10>>)
                                 THEN HALLUCINATION ELSE PARTIAL_INCORRECT

C10_Witness ==
    /\ Scored
    /\ NoSharedCharacter
    /\ score_result[2] = HALLUCINATION

\* C10 as stated: records that share no character score below 0.3 and are
\* HALLUCINATION
C10_DisjointIsHallucination ==
    (Scored /\ NoSharedCharacter) =>
        FracLess(score_result[1], <<3, 10>>) /\ score_result[2] = HALLUCINATION

\* a worker has taken the image: validate_image was entered
Dispatched(i) == task[i].pc \notin {"pending", "cancelled"}

\* the part of C11 the code keeps: a path that is no directory lists no image,
\* nothing is dispatched, and the run ends in the exception of line 290
C11_MissingDirectoryRaises ==
    ~dir_exists =>
        /\ main_pc # "done"
        /\ Tasks = {}
        /\ results = <<>>

(***************************************************************************)
(* C11: with a configuration failure (no distortion names, a threshold     *)
(* outside [0, 1], a path that is no directory) run_validation does not    *)
(* complete, no image is dispatched to a worker, and no extraction or      *)
(* analysis call is made.                                                  *)
(***************************************************************************)
C11_ConfigFailureFatalAtStart ==
    ConfigFailure =>
        /\ main_pc # "done"
        /\ \A i \in Tasks : ~Dispatched(i) /\ task[i].calls = <<>>

\* the number of times x is in a sequence
Count(x, seq) == Cardinality({n \in 1..Len(seq) : seq[n] = x})

\* the same elements, each as many times
SameBag(s, t) ==
    /\ Len(s) = Len(t)
    /\ \A x \in Range(s) \cup Range(t) : Count(x, s) = Count(x, t)

\* what self.results holds of image i
Contribution(i) ==
    SelectSeq(results, LAMBDA r : r.image_name = image_paths[i])

\* run_validation is past line 271
Flattened == main_pc = "done" \/ (main_pc = "raised" /\ next_future > Len(image_paths))

\* the state part of C12: until line 271 self.results is empty; from then on
\* every image has returned and self.results holds each image's results, each
\* as many times as validate_image returned it, and nothing else
C12_NoneLostNoneDuplicated ==
    IF Flattened
    THEN /\ \A i \in Tasks :
               /\ task[i].pc = "returned"
               /\ SameBag(Contribution(i), task[i].results)
         /\ \A n \in 1..Len(results) : results[n].image_name \in Range(image_paths)
    ELSE results = <<>>

\* a step of a worker: a task changes and the main thread stays where it is
WorkerStep == task' # task /\ main_pc' = main_pc

\* the step part of C12: a worker's step changes one task and nothing that is
\* shared; self.results is written in one step, of the main thread, when no
\* worker is running, and not again
C12_WrittenOnceAfterPool ==
    /\ WorkerStep =>
          /\ UNCHANGED <<config, results, all_results, df, stats, image_paths,
                         next_future>>
          /\ Cardinality({i \in Tasks : task'[i] # task[i]}) = 1
    /\ results' # results =>
          /\ main_pc = "collect" /\ main_pc' \in {"done", "raised"}
          /\ \A i \in Tasks : task[i].pc = "returned"
          /\ results = <<>>

(***************************************************************************)
(* C12: for every number of workers and every interleaving, a run that     *)
(* gets past the pool leaves in self.results the results validate_image    *)
(* returned for each image, each once, none lost and none duplicated; the  *)
(* workers write nothing that is shared, and self.results is written in    *)
(* one step after every worker is done.                                    *)
(***************************************************************************)
C12_ResultsExactlyOnce ==
    []C12_NoneLostNoneDuplicated /\ [][C12_WrittenOnceAfterPool]_vars

C12_Witness ==
    /\ main_pc = "done"
    /\ max_workers = 2
    /\ Len(image_paths) = 2
    /\ \A i \in Tasks : task[i].results # <<>>
    /\ Len(results) = 2
    /\ results[1].image_name # results[2].image_name
    /\ results[1].error_category # results[2].error_category

\* the place of a name in the vocabulary (of distinct names)
Position(name) ==
    CHOOSE k \in 1..Len(distortion_list) : distortion_list[k] = name

Positions(d) == [k \in 1..Len(d) |-> Position(d[k])]

Increasing(p) == \A k \in 1..(Len(p) - 1) : p[k] < p[k + 1]

\* p is before q in the lexicographic order of tuples of one length
LexLess(p, q) ==
    \E k \in 1..Len(p) : p[k] < q[k] /\ \A j \in 1..(k - 1) : p[j] = q[j]

\* the subset d is enumerated before the subset e: it is smaller, or of the
\* same size and earlier by the places of its names
EnumeratedBefore(d, e) ==
    \/ Len(d) < Len(e)
    \/ Len(d) = Len(e) /\ LexLess(Positions(d), Positions(e))

InEnumerationOrder(rs) ==
    /\ \A n \in 1..Len(rs) : Increasing(Positions(rs[n].distortions))
    /\ \A m, n \in 1..Len(rs) :
          m < n => EnumeratedBefore(rs[m].distortions, rs[n].distortions)

(***************************************************************************)
(* C13: for a vocabulary of distinct names, the results of one image, in   *)
(* the worker's list and in self.results, are in enumeration order:        *)
(* smaller subsets first, subsets of one size in the lexicographic order   *)
(* of the places of their names in the vocabulary, and each result's       *)
(* distortions in the vocabulary's order; under every interleaving.        *)
(***************************************************************************)
C13_EnumerationOrderPerImage ==
    Distinct(distortion_list) =>
        \A i \in Tasks :
            /\ InEnumerationOrder(task[i].results)
            /\ InEnumerationOrder(Contribution(i))
            /\ Flattened => Contribution(i) = task[i].results

C13_Witness ==
    /\ main_pc = "done"
    /\ max_workers = 2
    /\ Len(image_paths) = 2
    /\ distortion_list = <<"noise", "blur">>
    /\ Len(results) = 6
    /\ \A i \in Tasks :
          /\ Len(Contribution(i)) = 3
          /\ Contribution(i)[1].distortions = <<"noise">>
          /\ Contribution(i)[2].distortions = <<"blur">>
          /\ Contribution(i)[3].distortions = <<"noise", "blur">>

RECURSIVE ReturnedUpTo(_)
\* the number of results the first n images returned
ReturnedUpTo(n) ==
    IF n = 0 THEN 0 ELSE Len(task[n].results) + ReturnedUpTo(n - 1)

\* the number of results of self.results that have the category
ResultsOf(category) ==
    Cardinality({n \in 1..Len(results) : results[n].error_category = category})

(***************************************************************************)
(* C14: after a run_validation that completed, total_tests is the number   *)
(* of results collected, which is the sum of the numbers of results of the *)
(* images; each count of a category is the number of results of that       *)
(* category; and the four counts add up to total_tests.                    *)
(***************************************************************************)
C14_StatisticsMatchResults ==
    main_pc = "done" =>
        /\ stats # None
        /\ LET st == stats[1]
           IN  /\ st.total_tests = Len(results)
               /\ st.total_tests = ReturnedUpTo(Len(image_paths))
               /\ st.correct = ResultsOf(CORRECT)
               /\ st.hallucinations = ResultsOf(HALLUCINATION)
               /\ st.partial_incorrect = ResultsOf(PARTIAL_INCORRECT)
               /\ st.no_extraction = ResultsOf(NO_EXTRACTION)
               /\ st.correct + st.hallucinations + st.partial_incorrect
                     + st.no_extraction = st.total_tests

C14_Witness ==
    /\ main_pc = "done"
    /\ stats # None
    /\ Len(image_paths) = 2
    /\ \A i \in Tasks : Len(task[i].results) = 1
    /\ stats[1].total_tests = 2
    /\ stats[1].hallucinations = 1
    /\ stats[1].no_extraction = 1

=============================================================================
